---- MODULE Spec2Model ----
(***************************************************************************)
(* DocxWriter: the content-rendering engine of docxwriter.DocumentCreator  *)
(* (src/docxwriter/document_creator.py) and its compat layer.              *)
(*                                                                         *)
(* Texts are sequences of one-character strings, so that str.strip and     *)
(* str.split are computed and not assumed.  The document model (self.doc)  *)
(* is the sequence of its body nodes.                                      *)
(***************************************************************************)
EXTENDS Integers, Sequences, FiniteSets, TLC

VARIABLES
    doc,             \* self.doc: body nodes of the creator's document model
    watermark_text,  \* self.watermark_text (None, or a text)
    files,           \* the file system: path -> saved body, NoFile when absent
    pc,              \* position inside create_document_from_json
    data,            \* the JSON data of the build in progress
    section_idx,     \* next element of data["content"] to dispatch
    raised,          \* exception the last call propagated to its caller
    returned,        \* value the last create_document_from_json returned
    log,             \* logger records written by the current call
    calls,           \* history: renderer invocations of the last process_content
    last,            \* history: the last public call, its arguments, doc before
    before,          \* history: body and files when the current public call started
    ncalls,          \* number of public calls made on the creator so far
    rels,            \* relationships of the document part (paragraph.part.rels)
    tree,            \* XML children of the paragraph and of the cell properties
                     \* handed to add_hyperlink and set_cell_border
    main_exit,       \* what the entry point of the last build gave its caller
    styles           \* doc.styles, and the style the caller of create_style holds

vars == <<doc, watermark_text, files, pc, data, section_idx, raised, returned,
          log, calls, last, before, ncalls, rels, tree, main_exit, styles>>

-----------------------------------------------------------------------------
(* Bounds of the model *)

MaxBuilds == 2
MaxRows == 3
MaxCols == 2
MaxItems == 2
MaxLevel == 1
MaxMarkupCalls == 2

-----------------------------------------------------------------------------
(* Python values *)

None == [type |-> "NoneType"]
NoFile == [kind |-> "absent"]
NoData == [kind |-> "nodata"]
NoCall == [op |-> "none"]

PyStrVal(s) == [type |-> "str", s |-> s]
PyInt(n) == [type |-> "int", n |-> n]
PyBool(b) == [type |-> "bool", b |-> b]
PyList(l) == [type |-> "list", l |-> l]
\* a dict keeps insertion order: a sequence of <<key, value>> pairs
PyDict(items) == [type |-> "dict", items |-> items]

IsDict(v) == v.type = "dict"
IsList(v) == v.type = "list"

\* key in d
Has(d, k) == \E n \in 1..Len(d.items) : d.items[n][1] = k

\* d[k] for a present key
Item(d, k) == d.items[CHOOSE n \in 1..Len(d.items) : d.items[n][1] = k][2]

\* d.get(k, default)
Get(d, k, default) == IF Has(d, k) THEN Item(d, k) ELSE default

\* bool(v) of the values used as conditions
Truthy(v) ==
    CASE v.type = "NoneType" -> FALSE
      [] v.type = "str" -> v.s # <<>>
      [] v.type = "bool" -> v.b
      [] v.type = "int" -> v.n # 0
      [] v.type = "list" -> v.l # <<>>
      [] v.type = "dict" -> v.items # <<>>

-----------------------------------------------------------------------------
(* str methods, on sequences of characters *)

Whitespace == {" ", "\n", "\t"}

RECURSIVE LStripChars(_, _)
LStripChars(s, chars) ==
    IF s # <<>> /\ Head(s) \in chars THEN LStripChars(Tail(s), chars) ELSE s

RECURSIVE RStripChars(_, _)
RStripChars(s, chars) ==
    IF s # <<>> /\ s[Len(s)] \in chars
    THEN RStripChars(SubSeq(s, 1, Len(s) - 1), chars)
    ELSE s

\* s.strip(chars)
StripChars(s, chars) == RStripChars(LStripChars(s, chars), chars)

\* s.strip()
Strip(s) == StripChars(s, Whitespace)

\* s.startswith(p)
StartsWith(s, p) == Len(s) >= Len(p) /\ SubSeq(s, 1, Len(p)) = p

\* s.split(sep): leftmost, non-overlapping occurrences of a non-empty sep
RECURSIVE SplitFrom(_, _, _)
SplitFrom(s, sep, acc) ==
    IF s = <<>> THEN <<acc>>
    ELSE IF StartsWith(s, sep)
         THEN <<acc>> \o SplitFrom(SubSeq(s, Len(sep) + 1, Len(s)), sep, <<>>)
         ELSE SplitFrom(Tail(s), sep, Append(acc, Head(s)))

Split(s, sep) == SplitFrom(s, sep, <<>>)

Digits == <<"0", "1", "2", "3", "4", "5", "6", "7", "8", "9">>

\* str(n) of a small non-negative int
RECURSIVE IntStr(_)
IntStr(n) == IF n < 10 THEN <<Digits[n + 1]>> ELSE IntStr(n \div 10) \o <<Digits[(n % 10) + 1]>>

\* repr(s) of a text without quotes or escapes
Repr(s) == <<"'">> \o s \o <<"'">>

RECURSIVE DictItemsStr(_)
\* str(v): a str is itself, other values print as Python prints them
RECURSIVE PyStr(_)
PyStr(v) ==
    CASE v.type = "str" -> v.s
      [] v.type = "int" -> IntStr(v.n)
      [] v.type = "bool" -> IF v.b THEN <<"T", "r", "u", "e">> ELSE <<"F", "a", "l", "s", "e">>
      [] v.type = "NoneType" -> <<"N", "o", "n", "e">>
      [] v.type = "dict" -> <<"{">> \o DictItemsStr(v.items) \o <<"}">>

PyRepr(v) == IF v.type = "str" THEN Repr(v.s) ELSE PyStr(v)

DictItemsStr(items) ==
    IF items = <<>> THEN <<>>
    ELSE Repr(Head(items)[1]) \o <<":", " ">> \o PyRepr(Head(items)[2])
         \o (IF Len(items) > 1 THEN <<",", " ">> ELSE <<>>)
         \o DictItemsStr(Tail(items))

-----------------------------------------------------------------------------
(* The document model: what python-docx appends to the body *)

NoExc == "none"
StyleNone == "None"

\* styles of the document after apply_styles_to_document
ParagraphStyles ==
    {"Normal", "Title", "Subtitle", "Heading 1", "Heading 2", "Heading 3",
     "Abstract", "References", "Quote", "List Bullet", "List Number",
     "Caption", "Footnote", "Header", "Footer", "Code", "Warning", "Error",
     "Success", "Hidden"}
TableStyles == {"Table Grid", "Normal Table"}

FONTS == [serif |-> "Times New Roman", heading |-> "Times New Roman"]
SIZES == [normal |-> 12, title |-> 18]

\* Document.add_heading(text, level): style "Title" at level 0, "Heading n"
\* otherwise; the run exists only for a non-empty text
HeadingNode(text, level) ==
    [kind |-> "heading", text |-> text, level |-> level,
     style |-> IF level = 0 THEN "Title" ELSE "Heading",
     size |-> 0, bold |-> FALSE, font |-> "", align |-> ""]

\* Document.add_paragraph(text, style)
ParagraphNode(text, style) ==
    [kind |-> "paragraph", text |-> text, style |-> style, left_indent |-> -1,
     size |-> 0, font |-> "", align |-> "", fmt |-> {}]

PageBreakNode == [kind |-> "page_break"]

PictureNode(path, width, height) ==
    [kind |-> "picture", path |-> path, width |-> width, height |-> height]

\* a cell of a new table: one empty paragraph, no run
EmptyCell == [text |-> <<>>, runs |-> 0, bold |-> FALSE, size |-> 0]

\* Document.add_table(rows, cols): the cells in row-major order
TableNode(rows, cols) ==
    [kind |-> "table", rows |-> rows, cols |-> cols, style |-> "",
     cells |-> [n \in 1..(rows * cols) |-> EmptyCell]]

\* result of a renderer: the body, the exception that escaped, its log records
Result(d, err, lg) == [doc |-> d, err |-> err, log |-> lg]

LogError(fn, arg, exc) == [level |-> "error", fn |-> fn, arg |-> arg, exc |-> exc]
LogInfo(fn, arg) == [level |-> "info", fn |-> fn, arg |-> arg, exc |-> NoExc]

\* the node list with its last node replaced
SetLast(d, node) == [d EXCEPT ![Len(d)] = node]

-----------------------------------------------------------------------------
(* add_page_break, add_image *)

add_page_break(d) == Result(Append(d, PageBreakNode), NoExc, <<>>)

\* image files as the renderer finds them: a readable image, a file that is
\* no image, or no file
ImageOk == <<"o", "k", ".", "p", "n", "g">>
ImageBad == <<"b", "a", "d", ".", "p", "n", "g">>
ImageMissing == <<"n", "o", ".", "p", "n", "g">>
ImagePaths == {ImageOk, ImageBad, ImageMissing}

add_picture_error(path) ==
    CASE path = ImageOk -> NoExc
      [] path = ImageBad -> "UnrecognizedImageError"
      [] OTHER -> "FileNotFoundError"

add_image(d, image_path, width, height) ==
    LET e == add_picture_error(image_path) IN
    IF e = NoExc
    THEN Result(Append(d, PictureNode(image_path, width, height)), NoExc, <<>>)
    ELSE Result(d, e, <<LogError("add_image", image_path, e)>>)

-----------------------------------------------------------------------------
(* add_table *)

\* (mutant) the column count taken from the last row
TableCols_LastRow(table_data) == Len(table_data[Len(table_data)])

\* cols = len(data[0])
TableCols(table_data) == Len(table_data[1])

\* if i < header_rows  (i is the 0-based row index)
IsHeaderRow(i, header_rows) == i < header_rows

\* (mutant) row and column swapped
CellIndex_Transposed(i, j, cols) == i + j * cols

\* Table.cell(i, j): the cell at col_idx + row_idx * column_count of the
\* row-major cell list (0-based); IndexError beyond the list
CellIndex(i, j, cols) == j + i * cols

\* for j, cell_text in enumerate(row): if j < len(row)
ColumnInBounds(j, row) == j < Len(row)

\* cell.text = cell_text, then the header formatting of its runs
FilledCell(cell_text, i, header_rows) ==
    [text |-> cell_text, runs |-> 1,
     bold |-> IsHeaderRow(i, header_rows),
     size |-> IF IsHeaderRow(i, header_rows) THEN 12 ELSE 0]

\* the two loops over data, from row i (0-based), column j on; stops at the
\* first IndexError with the cells written so far
RECURSIVE FillCells(_, _, _, _, _, _)
FillCells(cells, table_data, i, j, cols, header_rows) ==
    IF i >= Len(table_data) THEN [cells |-> cells, err |-> NoExc]
    ELSE LET row == table_data[i + 1] IN
         IF j >= Len(row)
         THEN FillCells(cells, table_data, i + 1, 0, cols, header_rows)
         ELSE IF ~ColumnInBounds(j, row)
              THEN FillCells(cells, table_data, i, j + 1, cols, header_rows)
              ELSE LET n == CellIndex(i, j, cols) IN
                   IF n >= Len(cells)
                   THEN [cells |-> cells, err |-> "IndexError"]
                   ELSE FillCells(
                            [cells EXCEPT ![n + 1] = FilledCell(row[j + 1], i, header_rows)],
                            table_data, i, j + 1, cols, header_rows)

add_table(d, table_data, style, header_rows) ==
    IF table_data = <<>> THEN Result(d, NoExc, <<>>)
    ELSE LET rows == Len(table_data)
             cols == TableCols(table_data)
             table == TableNode(rows, cols)
             d1 == Append(d, table)
         IN  IF style \notin TableStyles
             THEN Result(d1, "KeyError", <<>>)
             ELSE LET styled == [table EXCEPT !.style = style]
                      filled == FillCells(styled.cells, table_data, 0, 0, cols, header_rows)
                  IN  Result(Append(d, [styled EXCEPT !.cells = filled.cells]),
                             filled.err, <<>>)

-----------------------------------------------------------------------------
(* add_list *)

\* (mutant) the indent does not depend on the level
ListIndent_Flat(level) == 36

\* Pt(36 * (level + 1)), in points
ListIndent(level) == 36 * (level + 1)

\* (mutant) only "numbered" selects the numbered style
ListStyle_BulletElse(list_type) == IF list_type = "numbered" THEN "List Number" ELSE "List Bullet"

\* the named style chosen by list_type
ListStyle(list_type) == IF list_type = "bullet" THEN "List Bullet" ELSE "List Number"

ListParagraph(item, list_type, level) ==
    [ParagraphNode(item, ListStyle(list_type)) EXCEPT !.left_indent = ListIndent(level)]

add_list(d, items, list_type, level) ==
    Result(d \o [n \in 1..Len(items) |-> ListParagraph(items[n], list_type, level)],
           NoExc, <<>>)

-----------------------------------------------------------------------------
(* add_section *)

Newline == <<"\n">>
BlankLine == <<"\n", "\n">>
DashSpace == <<"-", " ">>
StarSpace == <<"*", " ">>

\* para.startswith("- ") or para.startswith("* ")
IsListUnit(para) == StartsWith(para, DashSpace) \/ StartsWith(para, StarSpace)

\* [item.strip("- *").strip() for item in para.split("\n") if item.strip()]
RECURSIVE ListItemsOf(_)
ListItemsOf(lines) ==
    IF lines = <<>> THEN <<>>
    ELSE (IF Strip(Head(lines)) # <<>>
          THEN <<Strip(StripChars(Head(lines), {"-", " ", "*"}))>>
          ELSE <<>>) \o ListItemsOf(Tail(lines))

\* the body paragraph of a section, formatted
BodyParagraph(para) ==
    [ParagraphNode(para, "Normal") EXCEPT !.size = SIZES.normal, !.font = FONTS.serif]

\* for para in paragraphs: ...   (stops at the first exception)
RECURSIVE SectionBody(_, _, _)
SectionBody(d, paragraphs, style) ==
    IF paragraphs = <<>> THEN [doc |-> d, err |-> NoExc]
    ELSE LET para == Strip(Head(paragraphs)) IN
         IF para = <<>> THEN SectionBody(d, Tail(paragraphs), style)
         ELSE IF IsListUnit(para)
              THEN SectionBody(add_list(d, ListItemsOf(Split(para, Newline)), "bullet", 0).doc,
                               Tail(paragraphs), style)
              ELSE LET d1 == Append(d, BodyParagraph(para)) IN
                   IF style \in {StyleNone, ""}
                   THEN SectionBody(d1, Tail(paragraphs), style)
                   ELSE IF style \notin ParagraphStyles
                        THEN [doc |-> d1, err |-> "KeyError"]
                        ELSE SectionBody(SetLast(d1, [BodyParagraph(para) EXCEPT !.style = style]),
                                         Tail(paragraphs), style)

\* the heading of a section, formatted
SectionHeading(heading, level) ==
    [HeadingNode(Strip(heading), level) EXCEPT
        !.size = 14, !.bold = TRUE, !.font = FONTS.heading]

add_section(d, heading, text, level, style) ==
    LET fail(dd, e) == Result(dd, e, <<LogError("add_section", heading, e)>>) IN
    IF level \notin 0..9 THEN fail(d, "ValueError")
    ELSE IF Strip(heading) = <<>>
         THEN fail(Append(d, HeadingNode(<<>>, level)), "IndexError")
         ELSE LET body == SectionBody(Append(d, SectionHeading(heading, level)),
                                      Split(Strip(text), BlankLine), style)
              IN  IF body.err = NoExc THEN Result(body.doc, NoExc, <<>>)
                  ELSE fail(body.doc, body.err)

-----------------------------------------------------------------------------
(* process_content *)

K_table == <<"t", "a", "b", "l", "e">>
K_list == <<"l", "i", "s", "t">>
K_image == <<"i", "m", "a", "g", "e">>
K_page_break == <<"p", "a", "g", "e", "_", "b", "r", "e", "a", "k">>
K_style == <<"s", "t", "y", "l", "e">>
K_header_rows == <<"h", "e", "a", "d", "e", "r", "_", "r", "o", "w", "s">>
K_list_type == <<"l", "i", "s", "t", "_", "t", "y", "p", "e">>
K_level == <<"l", "e", "v", "e", "l">>
K_width == <<"w", "i", "d", "t", "h">>
K_height == <<"h", "e", "i", "g", "h", "t">>
K_title == <<"t", "i", "t", "l", "e">>
K_file_name == <<"f", "i", "l", "e", "_", "n", "a", "m", "e">>
K_content == <<"c", "o", "n", "t", "e", "n", "t">>

\* (mutant) the chain with "list" tested before "table"
Shape_ListFirst(text) ==
    IF IsDict(text)
    THEN IF Has(text, K_list) THEN "add_list"
         ELSE IF Has(text, K_table) THEN "add_table"
         ELSE IF Has(text, K_image) THEN "add_image"
         ELSE IF Has(text, K_page_break) THEN "add_page_break"
         ELSE "add_section"
    ELSE "add_section"

\* (mutant) heading and body swapped
SectionArgs_Swapped(heading, text) ==
    [heading |-> PyStr(text), text |-> heading, level |-> 1, style |-> StyleNone]

\* self.add_section(heading, str(text))
SectionArgs(heading, text) ==
    [heading |-> heading, text |-> PyStr(text), level |-> 1, style |-> StyleNone]

\* the if/elif chain of process_content: which renderer a node value selects
Shape(text) ==
    IF IsDict(text)
    THEN IF Has(text, K_table) THEN "add_table"
         ELSE IF Has(text, K_list) THEN "add_list"
         ELSE IF Has(text, K_image) THEN "add_image"
         ELSE IF Has(text, K_page_break) THEN "add_page_break"
         ELSE "add_section"
    ELSE "add_section"

\* the arguments the chain passes to the renderer it selects
RendererArgs(heading, text) ==
    CASE Shape(text) = "add_table" ->
            [data |-> Item(text, K_table),
             style |-> Get(text, K_style, "Table Grid"),
             header_rows |-> Get(text, K_header_rows, 1)]
      [] Shape(text) = "add_list" ->
            [items |-> Item(text, K_list),
             list_type |-> Get(text, K_list_type, "bullet"),
             level |-> Get(text, K_level, 0)]
      [] Shape(text) = "add_image" ->
            [image_path |-> Item(text, K_image),
             width |-> Get(text, K_width, 6),
             height |-> Get(text, K_height, 4)]
      [] Shape(text) = "add_page_break" -> [none |-> TRUE]
      [] Shape(text) = "add_section" -> SectionArgs(heading, text)

\* one renderer applied to its arguments
Render(d, renderer, args) ==
    CASE renderer = "add_table" -> add_table(d, args.data, args.style, args.header_rows)
      [] renderer = "add_list" -> add_list(d, args.items, args.list_type, args.level)
      [] renderer = "add_image" -> add_image(d, args.image_path, args.width, args.height)
      [] renderer = "add_page_break" -> add_page_break(d)
      [] renderer = "add_section" -> add_section(d, args.heading, args.text, args.level, args.style)

\* the record of one renderer invocation: body nodes from+1..to are its own
Call(key, value, renderer, args, d, r, dispatched) ==
    [key |-> key, value |-> value, renderer |-> renderer, args |-> args,
     from |-> Len(d), to |-> Len(r.doc), err |-> r.err, dispatched |-> dispatched]

\* for heading, text in content.items(): ...   (stops at the first exception)
RECURSIVE ContentLoop(_, _, _, _)

\* (mutant) the key of a shape node is emitted as a heading before its renderer
ContentLoop_HeadingFirst(d, items, lg, cs) ==
    IF items = <<>> THEN [doc |-> d, err |-> NoExc, log |-> lg, calls |-> cs]
    ELSE LET heading == Head(items)[1]
             text == Head(items)[2]
             renderer == Shape(text)
             args == RendererArgs(heading, text)
             d1 == IF renderer = "add_section" THEN d ELSE Append(d, HeadingNode(heading, 1))
             r == Render(d1, renderer, args)
             cs1 == Append(cs, Call(heading, text, renderer, args, d, r, TRUE))
         IN  IF r.err = NoExc
             THEN ContentLoop(r.doc, Tail(items), lg \o r.log, cs1)
             ELSE [doc |-> r.doc, err |-> r.err, log |-> lg \o r.log, calls |-> cs1]

ContentLoop(d, items, lg, cs) ==
    IF items = <<>> THEN [doc |-> d, err |-> NoExc, log |-> lg, calls |-> cs]
    ELSE LET heading == Head(items)[1]
             text == Head(items)[2]
             renderer == Shape(text)
             args == RendererArgs(heading, text)
             r == Render(d, renderer, args)
             cs1 == Append(cs, Call(heading, text, renderer, args, d, r, TRUE))
         IN  IF r.err = NoExc
             THEN ContentLoop(r.doc, Tail(items), lg \o r.log, cs1)
             ELSE [doc |-> r.doc, err |-> r.err, log |-> lg \o r.log, calls |-> cs1]

\* (mutant) the except clause logs the error and does not re-raise it
process_content_Swallow(d, content) ==
    IF ~IsDict(content)
    THEN [doc |-> d, err |-> NoExc,
          log |-> <<LogError("process_content", <<>>, "AttributeError")>>, calls |-> <<>>]
    ELSE LET r == ContentLoop(d, content.items, <<>>, <<>>) IN
         IF r.err = NoExc THEN r
         ELSE [r EXCEPT !.log = Append(r.log, LogError("process_content", <<>>, r.err)),
                        !.err = NoExc]

process_content(d, content) ==
    IF ~IsDict(content)
    THEN [doc |-> d, err |-> "AttributeError",
          log |-> <<LogError("process_content", <<>>, "AttributeError")>>, calls |-> <<>>]
    ELSE LET r == ContentLoop(d, content.items, <<>>, <<>>) IN
         IF r.err = NoExc THEN r
         ELSE [r EXCEPT !.log = Append(r.log, LogError("process_content", <<>>, r.err))]

-----------------------------------------------------------------------------
(* add_watermark *)

\* if not self.watermark_text: return
WatermarkEnabled(wm) == Truthy(wm)

WatermarkNode(text) ==
    [ParagraphNode(text, "Hidden") EXCEPT
        !.align = "center", !.size = SIZES.normal, !.font = FONTS.heading,
        !.fmt = {"italic", "white", "bold", "underline"}]

add_watermark(d, wm) ==
    IF ~WatermarkEnabled(wm) THEN Result(d, NoExc, <<>>)
    ELSE Result(Append(d, WatermarkNode(wm.s)), NoExc, <<>>)

-----------------------------------------------------------------------------
(* Markup fragments: add_hyperlink, set_cell_border *)

\* an XML element: tag, attributes (name, value) in the order set, text, children
Element(tag, attrs, text, children) ==
    [tag |-> tag, attrs |-> attrs, text |-> text, children |-> children]

\* OxmlElement(nsptag): a new element in the namespace of the prefix
OxmlElement(nsptag) == Element(nsptag, <<>>, <<>>, <<>>)

\* the namespace part of a Clark name, "{uri}", as one token per prefix
NsTokens == {"{w}", "{r}"}

\* qn("r:id"): the prefix replaced by its namespace, "{uri}id"
qn(name) ==
    LET colon == CHOOSE n \in 1..Len(name) : name[n] = ":" /\ \A m \in 1..(n - 1) : name[m] # ":"
    IN  <<"{" \o name[1] \o "}">> \o SubSeq(name, colon + 1, Len(name))

\* the local part of an attribute name as lxml reads it
LocalName(name) == IF name # <<>> /\ Head(name) \in NsTokens THEN Tail(name) ELSE name

\* lxml accepts an attribute name only if its local part holds no colon
XmlNameIsValid(name) == \A n \in 1..Len(LocalName(name)) : LocalName(name)[n] # ":"

\* element.set(name, value): ValueError for an invalid attribute name
SetAttr(el, name, value) ==
    IF XmlNameIsValid(name)
    THEN [el |-> [el EXCEPT !.attrs = Append(el.attrs, <<name, value>>)], err |-> NoExc]
    ELSE [el |-> el, err |-> "ValueError"]

A_rid == <<"r", ":", "i", "d">>
A_val == <<"w", ":", "v", "a", "l">>
A_sz == <<"w", ":", "s", "z">>
A_space == <<"w", ":", "s", "p", "a", "c", "e">>
A_color == <<"w", ":", "c", "o", "l", "o", "r">>

RT_HYPERLINK == "http://schemas.openxmlformats.org/officeDocument/2006/relationships/hyperlink"

RIdNames == <<"rId1", "rId2", "rId3", "rId4", "rId5", "rId6", "rId7", "rId8">>

Rel(n, reltype, target, external) ==
    [rId |-> RIdNames[n], reltype |-> reltype, target |-> target, external |-> external]

\* the relationships of the document part of a new Document()
TemplateRels == <<Rel(1, "styles", "styles.xml", FALSE), Rel(2, "settings", "settings.xml", FALSE)>>

\* the properties of a new table cell: its width element
NewCellProperties == <<Element("w:tcW", <<>>, <<>>, <<>>)>>

\* part.relate_to(url, reltype, is_external=True): the id of the matching
\* external relationship, a new relationship with the next free id otherwise
relate_to(rs, url, reltype) ==
    LET matching == {n \in 1..Len(rs) :
                        rs[n].external /\ rs[n].reltype = reltype /\ rs[n].target = url}
    IN  IF matching # {}
        THEN [rels |-> rs, r_id |-> rs[CHOOSE n \in matching : \A m \in matching : n <= m].rId]
        ELSE [rels |-> Append(rs, Rel(Len(rs) + 1, reltype, url, TRUE)),
              r_id |-> RIdNames[Len(rs) + 1]]

\* (mutant) the relationship id is set on the inner run as well
HyperlinkElement_RidOnRun(r_id, text) ==
    LET rPr == OxmlElement("w:rPr")
        new_run == [OxmlElement("w:r") EXCEPT
                       !.children = <<rPr>>, !.text = text, !.attrs = <<<<qn(A_rid), r_id>>>>]
    IN  [SetAttr(OxmlElement("w:hyperlink"), qn(A_rid), r_id).el EXCEPT !.children = <<new_run>>]

\* lines 68-78: the w:hyperlink element holding one w:r with the display text
HyperlinkElement(r_id, text) ==
    LET rPr == OxmlElement("w:rPr")
        new_run == [OxmlElement("w:r") EXCEPT !.children = <<rPr>>, !.text = text]
    IN  [SetAttr(OxmlElement("w:hyperlink"), qn(A_rid), r_id).el EXCEPT !.children = <<new_run>>]

\* the calls add_hyperlink makes, in the order it makes them
HyperlinkSteps ==
    <<"relate_to", "OxmlElement(w:hyperlink)", "set(r:id)", "OxmlElement(w:r)",
      "OxmlElement(w:rPr)", "append(rPr)", "text", "append(new_run)", "add_run",
      "append(hyperlink)">>

\* r = paragraph.add_run(); r._r.append(hyperlink)
AppendInNewRun(p, hyperlink) ==
    Append(p, [OxmlElement("w:r") EXCEPT !.children = <<hyperlink>>])

add_hyperlink(rs, p, text, url) ==
    LET reg == relate_to(rs, url, RT_HYPERLINK)
        hyperlink == HyperlinkElement(reg.r_id, text)
    IN  [rels |-> reg.rels, p |-> AppendInNewRun(p, hyperlink), err |-> NoExc,
         r_id |-> reg.r_id, hyperlink |-> hyperlink, steps |-> HyperlinkSteps]

BorderSides == {"top", "left", "bottom", "right"}

\* lines 100-106: one border element; the loop stops at the first exception
BorderElement(key, value) ==
    LET e1 == SetAttr(OxmlElement("w:" \o key), A_val, value)
        e2 == SetAttr(e1.el, A_sz, "4")
        e3 == SetAttr(e2.el, A_space, "0")
        e4 == SetAttr(e3.el, A_color, "auto")
    IN  CASE e1.err # NoExc -> e1
          [] e2.err # NoExc -> e2
          [] e3.err # NoExc -> e3
          [] OTHER -> e4

\* for key, value in kwargs.items(): ...
RECURSIVE BorderLoop(_, _)
BorderLoop(tcBorders, kwargs) ==
    IF kwargs = <<>> THEN [el |-> tcBorders, err |-> NoExc]
    ELSE LET key == Head(kwargs)[1]
             value == Head(kwargs)[2]
         IN  IF key \notin BorderSides THEN BorderLoop(tcBorders, Tail(kwargs))
             ELSE LET border == BorderElement(key, value) IN
                  IF border.err # NoExc THEN [el |-> tcBorders, err |-> border.err]
                  ELSE BorderLoop([tcBorders EXCEPT !.children = Append(@, border.el)],
                                  Tail(kwargs))

\* the container is appended to tcPr before the loop fills it
set_cell_border(tcPr, kwargs) ==
    LET filled == BorderLoop(OxmlElement("w:tcBorders"), kwargs)
    IN  [tcPr |-> Append(tcPr, filled.el), err |-> filled.err]

-----------------------------------------------------------------------------
(* Styles: components/styles.py on the style collection of the document *)

PARAGRAPH == "PARAGRAPH"
CHARACTER == "CHARACTER"

Enum(name) == [type |-> "enum", name |-> name]
\* a float, counted in halves (1.5 is PyFloat(3))
PyFloat(halves) == [type |-> "float", halves |-> halves]
\* Pt(n), a Length
Pt(n) == [type |-> "Length", pt |-> n]

NoStyle == "<no style>"

\* the attributes ParagraphFormat and Font declare; anything else is refused
\* by their __slots__ with an AttributeError
ParagraphFormatAttrs == {"alignment", "left_indent", "line_spacing", "line_spacing_rule"}
FontAttrs == {"bold", "size"}

\* a style as add_style creates it: nothing set
NewStyle(name, style_type) ==
    [name |-> name, type |-> style_type, base_style |-> NoStyle,
     pPr |-> [jc |-> None, ind_left |-> None, spacing_line |-> None, spacing_lineRule |-> None],
     font |-> [bold |-> None, size |-> None],
     color |-> [rgb |-> None]]

\* styles of the default template Document() opens: a paragraph style and a
\* character style among them
TemplateStyles == <<NewStyle("Normal", PARAGRAPH), NewStyle("Strong", CHARACTER)>>

\* name in doc.styles
HasStyle(tab, name) == \E n \in 1..Len(tab) : tab[n].name = name

\* position of doc.styles[name]
StyleAt(tab, name) == CHOOSE n \in 1..Len(tab) : tab[n].name = name

\* lines 59-72.  add_style raises ValueError for a name the collection holds,
\* and the handler returns the style of that name, whatever its type; for a
\* new name the style is in the collection before the base style is looked up.
create_style(tab, name, base_style, style_type) ==
    IF HasStyle(tab, name)
    THEN [tab |-> tab, style |-> name, err |-> NoExc]
    ELSE LET added == Append(tab, NewStyle(name, style_type)) IN
         IF ~HasStyle(added, base_style)
         THEN [tab |-> added, style |-> NoStyle, err |-> "KeyError"]
         ELSE [tab |-> [added EXCEPT ![Len(added)].base_style = base_style],
               style |-> name, err |-> NoExc]

\* ParagraphFormat.line_spacing = value: a Length is an exact height, a number
\* a multiple of the 240 twips of a single line; both write the line rule too
SetLineSpacing(pPr, value) ==
    CASE value.type = "NoneType" ->
            [pPr EXCEPT !.spacing_line = None, !.spacing_lineRule = None]
      [] value.type = "Length" ->
            [pPr EXCEPT !.spacing_line = PyInt(value.pt * 20),
                        !.spacing_lineRule = IF @ = Enum("AT_LEAST") THEN @ ELSE Enum("EXACTLY")]
      [] OTHER ->
            [pPr EXCEPT !.spacing_line = PyInt(value.halves * 120),
                        !.spacing_lineRule = Enum("MULTIPLE")]

\* setattr(paragraph_format, key, value) for a declared attribute
SetParagraphAttr(pPr, key, value) ==
    CASE key = "alignment" -> [pPr EXCEPT !.jc = value]
      [] key = "left_indent" -> [pPr EXCEPT !.ind_left = value]
      [] key = "line_spacing" -> SetLineSpacing(pPr, value)
      [] key = "line_spacing_rule" ->
            CASE value = Enum("SINGLE") -> SetLineSpacing(pPr, PyFloat(2))
              [] value = Enum("ONE_POINT_FIVE") -> SetLineSpacing(pPr, PyFloat(3))
              [] value = Enum("DOUBLE") -> SetLineSpacing(pPr, PyFloat(4))
              [] OTHER -> [pPr EXCEPT !.spacing_lineRule = value]

\* getattr(paragraph_format, key)
GetParagraphAttr(pPr, key) ==
    CASE key = "alignment" -> pPr.jc
      [] key = "left_indent" -> pPr.ind_left
      [] key = "line_spacing" ->
            IF pPr.spacing_line = None THEN None
            ELSE IF pPr.spacing_lineRule = Enum("MULTIPLE")
                 THEN PyFloat(pPr.spacing_line.n \div 120)
                 ELSE Pt(pPr.spacing_line.n \div 20)
      [] key = "line_spacing_rule" ->
            IF pPr.spacing_lineRule # Enum("MULTIPLE") THEN pPr.spacing_lineRule
            ELSE CASE pPr.spacing_line = PyInt(240) -> Enum("SINGLE")
                   [] pPr.spacing_line = PyInt(360) -> Enum("ONE_POINT_FIVE")
                   [] pPr.spacing_line = PyInt(480) -> Enum("DOUBLE")
                   [] OTHER -> Enum("MULTIPLE")

\* lines 75-78: the kwargs in order; a character style has no
\* paragraph_format, and an undeclared key is refused
RECURSIVE apply_paragraph_format(_, _)
apply_paragraph_format(style, kwargs) ==
    IF kwargs = <<>> THEN [style |-> style, err |-> NoExc]
    ELSE LET key == Head(kwargs)[1]
             value == Head(kwargs)[2]
         IN  IF style.type = CHARACTER \/ key \notin ParagraphFormatAttrs
             THEN [style |-> style, err |-> "AttributeError"]
             ELSE apply_paragraph_format(
                      [style EXCEPT !.pPr = SetParagraphAttr(@, key, value)], Tail(kwargs))

\* lines 81-87: the key color goes to font.color.rgb, every other key to the font
RECURSIVE apply_font_format(_, _)
apply_font_format(style, kwargs) ==
    IF kwargs = <<>> THEN [style |-> style, err |-> NoExc]
    ELSE LET key == Head(kwargs)[1]
             value == Head(kwargs)[2]
         IN  IF key = "color"
             THEN apply_font_format([style EXCEPT !.color.rgb = value], Tail(kwargs))
             ELSE IF key \notin FontAttrs
                  THEN [style |-> style, err |-> "AttributeError"]
                  ELSE apply_font_format([style EXCEPT !.font[key] = value], Tail(kwargs))

-----------------------------------------------------------------------------
(* Paths and the save step *)

\* a path is the sequence of its components; "/" first makes it absolute
output_dir == <<"data">>

\* output_dir / file_name (pathlib): an absolute right operand replaces the left
JoinPath(dir, file_name) ==
    IF file_name # <<>> /\ Head(file_name) = "/" THEN file_name ELSE dir \o file_name

\* the file the operating system opens for a path: ".." steps up
RECURSIVE Resolve(_, _)
Resolve(path, acc) ==
    IF path = <<>> THEN acc
    ELSE IF Head(path) = ".."
         THEN Resolve(Tail(path), IF acc = <<>> THEN acc ELSE SubSeq(acc, 1, Len(acc) - 1))
         ELSE Resolve(Tail(path), Append(acc, Head(path)))

FileAt(path) == Resolve(path, <<>>)

Exists(fs, path) == FileAt(path) \in DOMAIN fs

\* what a failed write leaves at the target: the zip is written in place
PartialFile == <<[kind |-> "partial"]>>

\* Document.save(path): opens the target for writing, then writes the parts
SaveOutcomes == {"ok", "open_fails", "write_fails"}

save(fs, d, path, outcome) ==
    CASE outcome = "ok" -> [files |-> (FileAt(path) :> d) @@ fs, err |-> NoExc]
      [] outcome = "open_fails" -> [files |-> fs, err |-> "OSError"]
      [] outcome = "write_fails" ->
            [files |-> (FileAt(path) :> PartialFile) @@ fs, err |-> "OSError"]

-----------------------------------------------------------------------------
(* Inputs *)

T_Title == <<"T">>
T_Intro == <<"I", "n", "t", "r", "o">>
T_Hello == <<"H", "e", "l", "l", "o">>
T_S == <<"S">>
T_x == <<"x">>
T_y == <<"y">>
T_W == <<"W">>
T_note == <<"n", "o", "t", "e">>
T_Blank == <<" ">>

F_out == <<"out.docx">>
F_b == <<"b.docx">>
F_up == <<"..", "x.docx">>
F_abs == <<"/", "tmp", "x.docx">>

RowLetters == <<"A", "B", "C", "D", "E">>

\* the text of cell (i, j) of an input table (1-based): distinct per position
CellText(i, j) == <<RowLetters[i], Digits[j + 1]>>

\* the input table with the given row lengths
TableOf(shape) == [i \in 1..Len(shape) |-> [j \in 1..shape[i] |-> CellText(i, j)]]

RECURSIVE SeqsUpTo(_, _)
\* all sequences over S of length at most n
SeqsUpTo(S, n) ==
    IF n = 0 THEN {<<>>}
    ELSE LET shorter == SeqsUpTo(S, n - 1) IN
         shorter \cup {Append(q, x) : q \in shorter, x \in S}

TableShapes == SeqsUpTo(0..MaxCols, MaxRows)
Tables == {TableOf(shape) : shape \in TableShapes}
HeaderRowCounts == 0..MaxRows
ItemLists == SeqsUpTo({T_x, T_y}, MaxItems)
ListTypes == {"bullet", "numbered", "roman"}
Levels == 0..MaxLevel

Grid22 == TableOf(<<2, 2>>)

Entry(k, v) == <<k, v>>

\* dicts carrying any subset of the shape keys, inserted in the reverse of the
\* order process_content tests them
ShapeDicts ==
    { PyDict(pb \o im \o li \o tb) :
        pb \in {<<>>, <<Entry(K_page_break, TRUE)>>, <<Entry(K_page_break, FALSE)>>},
        im \in {<<>>, <<Entry(K_image, ImageOk)>>, <<Entry(K_image, ImageMissing)>>},
        li \in {<<>>, <<Entry(K_list, <<T_x, T_y>>)>>},
        tb \in {<<>>, <<Entry(K_table, <<>>)>>, <<Entry(K_table, Grid22)>>} }

\* dicts carrying a shape key and its options
OptionDicts ==
    { PyDict(<<Entry(K_table, Grid22), Entry(K_header_rows, 0)>>),
      PyDict(<<Entry(K_table, Grid22), Entry(K_header_rows, 2), Entry(K_style, "Normal Table")>>),
      PyDict(<<Entry(K_style, "NoSuchStyle"), Entry(K_table, Grid22)>>),
      PyDict(<<Entry(K_list, <<T_x, T_y>>), Entry(K_list_type, "numbered")>>),
      PyDict(<<Entry(K_list, <<T_x>>), Entry(K_level, 1)>>),
      PyDict(<<Entry(K_image, ImageBad)>>),
      PyDict(<<Entry(K_image, ImageOk), Entry(K_width, 3), Entry(K_height, 2)>>) }

\* values rendered as a section body
PlainValues ==
    { PyStrVal(T_Hello), PyStrVal(<<>>), PyStrVal(<<"-", " ", "x", "\n", "-", " ", "y">>),
      PyStrVal(<<"a", "\n", "\n", "b">>), PyInt(5), PyInt(12), PyBool(TRUE), None,
      PyDict(<<Entry(T_note, PyStrVal(T_x))>>),
      PyDict(<<Entry(T_note, PyInt(5)), Entry(T_x, None)>>) }

NodeValues == ShapeDicts \cup OptionDicts \cup PlainValues

\* content mappings given to process_content
Contents ==
    { PyDict(<<Entry(T_S, v)>>) : v \in NodeValues }
    \cup { PyDict(<<Entry(T_Blank, PyStrVal(T_Hello))>>),
           PyDict(<<>>),
           PyDict(<<Entry(T_Intro, PyStrVal(T_Hello)), Entry(T_S, PyDict(<<Entry(K_table, Grid22)>>))>>),
           PyDict(<<Entry(T_Intro, PyStrVal(T_Hello)), Entry(T_S, PyDict(<<Entry(K_image, ImageMissing)>>)),
                    Entry(T_x, PyStrVal(T_y))>>),
           PyStrVal(T_Hello) }

C_Intro == PyDict(<<Entry(T_Intro, PyStrVal(T_Hello))>>)
C_Table == PyDict(<<Entry(T_S, PyDict(<<Entry(K_table, Grid22)>>))>>)
C_List == PyDict(<<Entry(T_S, PyDict(<<Entry(K_list, <<T_x, T_y>>), Entry(K_list_type, "numbered")>>))>>)
C_BadImage == PyDict(<<Entry(T_Intro, PyStrVal(T_Hello)),
                       Entry(T_S, PyDict(<<Entry(K_image, ImageMissing)>>))>>)
C_Mixed == PyDict(<<Entry(T_x, PyDict(<<Entry(K_page_break, TRUE)>>)),
                    Entry(T_y, PyStrVal(T_Hello)),
                    Entry(T_S, PyDict(<<Entry(K_image, ImageOk)>>))>>)

\* the values of data["content"] of the builds
BuildContents ==
    { C_Intro, C_Table, C_List, C_BadImage, C_Mixed,
      PyList(<<>>),
      PyList(<<C_Intro, C_Table>>),
      PyList(<<C_List, C_BadImage, C_Intro>>),
      PyStrVal(T_Hello) }

JsonData(title, file_name, content) ==
    PyDict(<<Entry(K_title, title), Entry(K_file_name, file_name), Entry(K_content, content)>>)

J_data == <<"data.json">>

Loaded(d) == [json_file |-> J_data, kind |-> "ok", data |-> d]

\* what open + json.load find at the given path
JsonInputs ==
    { [json_file |-> <<"none.json">>, kind |-> "missing", data |-> NoData],
      [json_file |-> <<"bad.json">>, kind |-> "invalid", data |-> NoData],
      Loaded(PyDict(<<Entry(K_file_name, F_out), Entry(K_content, C_Intro)>>)),
      Loaded(PyDict(<<Entry(K_title, T_Title), Entry(K_content, C_Intro)>>)),
      Loaded(PyDict(<<Entry(K_title, T_Title), Entry(K_file_name, F_out)>>)),
      Loaded(JsonData(<<>>, F_out, C_Intro)),
      Loaded(JsonData(T_Title, F_b, C_Intro)),
      Loaded(JsonData(T_Title, F_up, C_Intro)),
      Loaded(JsonData(T_Title, F_abs, C_Intro)) }
    \cup { Loaded(JsonData(T_Title, F_out, c)) : c \in BuildContents }

WatermarkTexts == {None, PyStrVal(<<>>), PyStrVal(T_W)}

\* the entry points of a build: the method itself (API), compat.main, and
\* the command line's main
Entries == {"create_document_from_json", "compat.main", "__main__.main"}

NoExit == [entry |-> "none", code |-> "none", raised |-> NoExc]
Running(entry) == [entry |-> entry, code |-> "running", raised |-> NoExc]

-----------------------------------------------------------------------------
(* DocumentCreator.__init__ *)

Init ==
    /\ doc = <<>>
    /\ watermark_text \in WatermarkTexts
    /\ files = <<>>
    /\ pc = "idle"
    /\ data = NoData
    /\ section_idx = 0
    /\ raised = NoExc
    /\ returned = <<>>
    /\ log = <<>>
    /\ calls = <<>>
    /\ last = NoCall
    /\ before = [doc |-> <<>>, files |-> <<>>]
    /\ ncalls = 0
    /\ rels = TemplateRels
    /\ tree = [p |-> <<>>, tcPr |-> NewCellProperties]
    /\ main_exit = NoExit
    /\ styles = [tab |-> TemplateStyles, style |-> NoStyle]

-----------------------------------------------------------------------------
(* create_document_from_json, step by step *)

required_fields == <<K_title, K_file_name, K_content>>

\* (mutant) file_name left out of the required fields
MissingField_NoFileName(d) == ~Has(d, K_title) \/ ~Has(d, K_content)

\* for field in required_fields: if field not in data: raise ValueError
MissingField(d) == \E n \in 1..Len(required_fields) : ~Has(d, required_fields[n])

\* the title heading, formatted
TitleHeading(title) ==
    [HeadingNode(title, 0) EXCEPT
        !.size = SIZES.title, !.bold = TRUE, !.font = FONTS.heading, !.align = "center"]

\* the except clauses of create_document_from_json: which one logs the error
BuildErrorLog(json_file, e) ==
    IF e \in {"FileNotFoundError", "JSONDecodeError"}
    THEN LogError("create_document_from_json", json_file, e)
    ELSE LogError("create_document_from_json", <<>>, e)

\* (mutant) the command line's main returns 0 after an error
MainExit_ExitZero(entry, e) ==
    IF entry = "__main__.main"
    THEN [entry |-> entry, code |-> "0", raised |-> NoExc]
    ELSE [entry |-> entry, code |-> "none", raised |-> e]

\* what the entry point gives its caller when create_document_from_json
\* ended with exception e (NoExc: it returned): compat.main re-raises,
\* __main__.main returns the exit code 0 or 1
MainExit(entry, e) ==
    IF entry = "__main__.main"
    THEN [entry |-> entry, code |-> IF e = NoExc THEN "0" ELSE "1", raised |-> NoExc]
    ELSE [entry |-> entry, code |-> "none", raised |-> e]

\* the records the entry point logs itself
MainLog(entry, json_file, doc_path, e) ==
    IF entry # "__main__.main" THEN <<>>
    ELSE CASE e = NoExc -> <<LogInfo("main", doc_path)>>
           [] e = "FileNotFoundError" -> <<LogError("main", json_file, e)>>
           [] OTHER -> <<LogError("main", <<>>, e)>>

\* the build ends with exception e propagated to the caller
Abort(json_file, entry, e, lg) ==
    /\ raised' = e
    /\ log' = Append(lg, BuildErrorLog(json_file, e)) \o MainLog(entry, json_file, <<>>, e)
    /\ main_exit' = MainExit(entry, e)
    /\ pc' = "idle"
    /\ data' = NoData
    /\ section_idx' = 0
    /\ returned' = <<>>

\* where the build goes after the content entries up to index n are dispatched
AfterSection(sections, n) ==
    IF n < (IF IsList(sections) THEN Len(sections.l) ELSE 1) THEN "content" ELSE "watermark"

\* lines 255-276: load, validate, emit the title.  __main__.main builds on a
\* creator it has just constructed; compat.main reads "data.json".
Begin(input, entry) ==
    /\ pc = "idle"
    /\ ncalls < MaxBuilds
    /\ entry = "__main__.main" => ncalls = 0
    /\ entry = "compat.main" => input.json_file = J_data
    /\ ncalls' = ncalls + 1
    /\ last' = [op |-> "create_document_from_json", input |-> input]
    /\ before' = [doc |-> doc, files |-> files]
    /\ calls' = <<>>
    /\ UNCHANGED <<watermark_text, files, rels, tree, styles>>
    /\ CASE input.kind = "missing" -> Abort(input.json_file, entry, "FileNotFoundError", <<>>) /\ doc' = doc
         [] input.kind = "invalid" -> Abort(input.json_file, entry, "JSONDecodeError", <<>>) /\ doc' = doc
         [] OTHER ->
              IF MissingField(input.data)
              THEN Abort(input.json_file, entry, "ValueError", <<>>) /\ doc' = doc
              ELSE LET title == Item(input.data, K_title)
                       sections == Item(input.data, K_content)
                   IN  IF title = <<>>
                       THEN /\ Abort(input.json_file, entry, "IndexError", <<>>)
                            /\ doc' = Append(doc, HeadingNode(title, 0))
                       ELSE /\ doc' = Append(doc, TitleHeading(title))
                            /\ data' = input.data
                            /\ section_idx' = 1
                            /\ pc' = AfterSection(sections, 0)
                            /\ raised' = NoExc
                            /\ returned' = <<>>
                            /\ log' = <<>>
                            /\ main_exit' = Running(entry)

\* (mutant) the elements of a list taken last to first
NextSection_Reversed(sections, n) ==
    IF IsList(sections) THEN sections.l[Len(sections.l) - n + 1] ELSE sections

\* the section group dispatched at step n: the n-th element of a list, or
\* the whole content
NextSection(sections, n) == IF IsList(sections) THEN sections.l[n] ELSE sections

\* lines 279-283: process_content on the next section group
ProcessSection ==
    /\ pc = "content"
    /\ LET sections == Item(data, K_content)
           section == NextSection(sections, section_idx)
           r == process_content(doc, section)
       IN  /\ doc' = r.doc
           /\ calls' = r.calls
           /\ IF r.err = NoExc
              THEN /\ pc' = AfterSection(sections, section_idx)
                   /\ section_idx' = section_idx + 1
                   /\ log' = log \o r.log
                   /\ UNCHANGED <<data, raised, returned, main_exit>>
              ELSE Abort(last.input.json_file, main_exit.entry, r.err, log \o r.log)
    /\ UNCHANGED <<watermark_text, files, last, before, ncalls, rels, tree, styles>>

\* line 286: self.add_watermark()
AddWatermark ==
    /\ pc = "watermark"
    /\ doc' = add_watermark(doc, watermark_text).doc
    /\ pc' = "save"
    /\ UNCHANGED <<watermark_text, files, data, section_idx, raised, returned,
                   log, calls, last, before, ncalls, rels, tree, main_exit, styles>>

\* lines 289-293: self.doc.save(doc_path), return doc_path
Save(outcome) ==
    /\ pc = "save"
    /\ LET doc_path == JoinPath(output_dir, Item(data, K_file_name))
           r == save(files, doc, doc_path, outcome)
       IN  /\ files' = r.files
           /\ IF r.err = NoExc
              THEN /\ returned' = doc_path
                   /\ raised' = NoExc
                   /\ log' = Append(log, LogInfo("create_document_from_json", doc_path))
                                \o MainLog(main_exit.entry, last.input.json_file, doc_path, NoExc)
                   /\ main_exit' = MainExit(main_exit.entry, NoExc)
                   /\ pc' = "idle"
                   /\ data' = NoData
                   /\ section_idx' = 0
              ELSE Abort(last.input.json_file, main_exit.entry, r.err, log)
    /\ UNCHANGED <<doc, watermark_text, calls, last, before, ncalls, rels, tree, styles>>

\* __main__.main, line 50: the creator is constructed before the try block.
\* When the constructor fails (ensure_dir cannot create the output directory)
\* no handler of main is in scope: nothing is logged, main returns no exit
\* code, the exception leaves main and the run is over.
MainConstructFails ==
    /\ pc = "idle"
    /\ ncalls = 0
    /\ main_exit = NoExit
    /\ main_exit' = [entry |-> "__main__.main", code |-> "none", raised |-> "OSError"]
    /\ pc' = "exited"
    /\ UNCHANGED <<doc, watermark_text, files, data, section_idx, raised, returned,
                   log, calls, last, before, ncalls, rels, tree, styles>>

Next ==
    \/ \E input \in JsonInputs, entry \in Entries : Begin(input, entry)
    \/ MainConstructFails
    \/ ProcessSection
    \/ AddWatermark
    \/ \E outcome \in SaveOutcomes : Save(outcome)

Spec == Init /\ [][Next]_vars

-----------------------------------------------------------------------------
(* The renderers called directly on the creator (compat module, tests) *)

\* one public renderer call: its result becomes the creator's state.  Each
\* behaviour follows one call, made on one of the bodies of StartBodies.
Direct(op, args, r, cs) ==
    /\ pc = "idle"
    /\ last = NoCall
    /\ ncalls' = ncalls + 1
    /\ last' = [op |-> op, args |-> args]
    /\ before' = [doc |-> doc, files |-> files]
    /\ doc' = r.doc
    /\ raised' = r.err
    /\ log' = r.log
    /\ calls' = cs
    /\ UNCHANGED <<watermark_text, files, pc, data, section_idx, returned, rels, tree,
                   main_exit, styles>>

DirectRender(renderer, args) ==
    LET r == Render(doc, renderer, args)
    IN  Direct(renderer, args, r, <<Call(<<>>, None, renderer, args, doc, r, FALSE)>>)

CallAddTable(table_data, style, header_rows) ==
    DirectRender("add_table", [data |-> table_data, style |-> style, header_rows |-> header_rows])

CallAddList(items, list_type, level) ==
    DirectRender("add_list", [items |-> items, list_type |-> list_type, level |-> level])

CallAddImage(image_path) ==
    DirectRender("add_image", [image_path |-> image_path, width |-> 6, height |-> 4])

CallAddPageBreak == DirectRender("add_page_break", [none |-> TRUE])

CallAddSection(heading, text, level, style) ==
    DirectRender("add_section", [heading |-> heading, text |-> text, level |-> level, style |-> style])

CallProcessContent(content) ==
    LET r == process_content(doc, content)
    IN  Direct("process_content", [content |-> content], r, r.calls)

SectionHeadings == {T_Intro, T_Blank, <<" ", "S", "\n">>}
SectionTexts ==
    { T_Hello, <<>>, <<"\n", "\n">>, <<"a", "\n", "\n", "b">>,
      <<"-", " ", "x", "\n", "*", " ", "y">>, <<"a", "\n", "\n", "*", " ", "x">>,
      <<"-", "x">>, <<" ", "-", " ", "x", " ">>, <<"-", " ", "x", " ", "*">> }
SectionStyles == {StyleNone, "Quote", "NoSuchStyle"}

\* the compat module's creator is process-wide: a renderer finds the body as
\* earlier calls left it, here empty or holding the node of an add_page_break
StartBodies == {<<>>, add_page_break(<<>>).doc}

InitRender ==
    /\ doc \in StartBodies
    /\ watermark_text = None
    /\ files = <<>>
    /\ pc = "idle"
    /\ data = NoData
    /\ section_idx = 0
    /\ raised = NoExc
    /\ returned = <<>>
    /\ log = <<>>
    /\ calls = <<>>
    /\ last = NoCall
    /\ before = [doc |-> doc, files |-> <<>>]
    /\ ncalls = 0
    /\ rels = TemplateRels
    /\ tree = [p |-> <<>>, tcPr |-> NewCellProperties]
    /\ main_exit = NoExit
    /\ styles = [tab |-> TemplateStyles, style |-> NoStyle]

RenderNext ==
    \/ \E t \in Tables, st \in {"Table Grid", "NoSuchStyle"}, h \in HeaderRowCounts :
           CallAddTable(t, st, h)
    \/ \E items \in ItemLists, lt \in ListTypes, lv \in Levels : CallAddList(items, lt, lv)
    \/ \E path \in ImagePaths : CallAddImage(path)
    \/ CallAddPageBreak
    \/ \E h \in SectionHeadings, t \in SectionTexts, st \in SectionStyles :
           CallAddSection(h, t, 1, st)
    \/ \E c \in Contents : CallProcessContent(c)

RenderSpec == InitRender /\ [][RenderNext]_vars

-----------------------------------------------------------------------------
(* The markup builders called on a paragraph and a table cell of the document *)

Urls == {"https://a.example", "https://b.example"}
LinkTexts == {T_x, T_Hello}
BorderStyles == {"single", "double"}
BorderKeys == BorderSides \cup {"inside"}

\* keyword arguments of set_cell_border, in the order given
BorderKwargs ==
    {<<>>}
    \cup {<<<<k, v>>>> : k \in BorderKeys, v \in BorderStyles}
    \cup UNION { {<<<<k1, v1>>, <<k2, v2>>>> :
                      k2 \in BorderKeys \ {k1}, v1 \in BorderStyles, v2 \in BorderStyles} :
                  k1 \in BorderKeys }
    \cup {<<<<"top", "single">>, <<"bottom", "single">>, <<"left", "single">>, <<"right", "single">>>>}

\* a paragraph as add_paragraph left it: without a run, or with one
StartParagraphs == {<<>>, <<[OxmlElement("w:r") EXCEPT !.text = T_Intro]>>}

\* one markup call on the creator; the document body is not touched
Markup(op, args, info, rs, tr, err) ==
    /\ pc = "idle"
    /\ ncalls < MaxMarkupCalls
    /\ ncalls' = ncalls + 1
    /\ last' = [op |-> op, args |-> args, info |-> info, rels |-> rels, tree |-> tree]
    /\ rels' = rs
    /\ tree' = tr
    /\ raised' = err
    /\ UNCHANGED <<doc, watermark_text, files, pc, data, section_idx, returned, log,
                   calls, before, main_exit, styles>>

CallAddHyperlink(text, url) ==
    LET r == add_hyperlink(rels, tree.p, text, url)
    IN  Markup("add_hyperlink", [text |-> text, url |-> url],
               [r_id |-> r.r_id, hyperlink |-> r.hyperlink, steps |-> r.steps],
               r.rels, [tree EXCEPT !.p = r.p], r.err)

CallSetCellBorder(kwargs) ==
    LET r == set_cell_border(tree.tcPr, kwargs)
    IN  Markup("set_cell_border", [kwargs |-> kwargs], [none |-> TRUE],
               rels, [tree EXCEPT !.tcPr = r.tcPr], r.err)

InitMarkup ==
    /\ doc = <<>>
    /\ watermark_text = None
    /\ files = <<>>
    /\ pc = "idle"
    /\ data = NoData
    /\ section_idx = 0
    /\ raised = NoExc
    /\ returned = <<>>
    /\ log = <<>>
    /\ calls = <<>>
    /\ last = NoCall
    /\ before = [doc |-> <<>>, files |-> <<>>]
    /\ ncalls = 0
    /\ rels = TemplateRels
    /\ tree \in {[p |-> p, tcPr |-> NewCellProperties] : p \in StartParagraphs}
    /\ main_exit = NoExit
    /\ styles = [tab |-> TemplateStyles, style |-> NoStyle]

MarkupNext ==
    \/ \E text \in LinkTexts, url \in Urls : CallAddHyperlink(text, url)
    \/ \E kwargs \in BorderKwargs : CallSetCellBorder(kwargs)

MarkupSpec == InitMarkup /\ [][MarkupNext]_vars

-----------------------------------------------------------------------------
(* The style helpers called on the document of a creator (tests.py) *)

MaxStyleCalls == 3

\* name, base_style and style_type of the create_style calls
StyleRequests ==
    { <<"TestStyle", "Normal", PARAGRAPH>>, <<"TestStyle", "Normal", CHARACTER>>,
      <<"Strong", "Normal", PARAGRAPH>>, <<"Normal", "Normal", PARAGRAPH>>,
      <<"Other", "TestStyle", PARAGRAPH>> }

ParagraphKwargs ==
    { <<<<"alignment", Enum("CENTER")>>>>,
      <<<<"line_spacing", PyFloat(3)>>>>,
      <<<<"alignment", Enum("CENTER")>>, <<"left_indent", Pt(36)>>>>,
      <<<<"left_indent", Pt(18)>>, <<"keep_all", PyBool(TRUE)>>>> }

FontKwargs ==
    { <<<<"bold", PyBool(TRUE)>>, <<"size", Pt(14)>>>>,
      <<<<"color", PyStrVal(<<"r", "e", "d">>)>>>>,
      <<<<"size", Pt(12)>>, <<"color", PyStrVal(<<"r", "e", "d">>)>>>>,
      <<<<"shadow", PyBool(TRUE)>>>> }

\* one call of a style helper; the caller keeps the style create_style returned
StyleCall(op, args, tab, style, err) ==
    /\ pc = "idle"
    /\ ncalls < MaxStyleCalls
    /\ ncalls' = ncalls + 1
    /\ last' = [op |-> op, args |-> args, styles |-> styles]
    /\ styles' = [tab |-> tab, style |-> style]
    /\ raised' = err
    /\ UNCHANGED <<doc, watermark_text, files, pc, data, section_idx, returned, log,
                   calls, before, rels, tree, main_exit>>

CallCreateStyle(name, base_style, style_type) ==
    LET r == create_style(styles.tab, name, base_style, style_type)
    IN  StyleCall("create_style",
                  [name |-> name, base_style |-> base_style, style_type |-> style_type],
                  r.tab, r.style, r.err)

CallApplyParagraphFormat(kwargs) ==
    /\ styles.style # NoStyle
    /\ LET n == StyleAt(styles.tab, styles.style)
           r == apply_paragraph_format(styles.tab[n], kwargs)
       IN  StyleCall("apply_paragraph_format", [kwargs |-> kwargs],
                     [styles.tab EXCEPT ![n] = r.style], styles.style, r.err)

CallApplyFontFormat(kwargs) ==
    /\ styles.style # NoStyle
    /\ LET n == StyleAt(styles.tab, styles.style)
           r == apply_font_format(styles.tab[n], kwargs)
       IN  StyleCall("apply_font_format", [kwargs |-> kwargs],
                     [styles.tab EXCEPT ![n] = r.style], styles.style, r.err)

StyleNext ==
    \/ \E req \in StyleRequests : CallCreateStyle(req[1], req[2], req[3])
    \/ \E kwargs \in ParagraphKwargs : CallApplyParagraphFormat(kwargs)
    \/ \E kwargs \in FontKwargs : CallApplyFontFormat(kwargs)

InitStyle == InitMarkup /\ tree.p = <<>>

StyleSpec == InitStyle /\ [][StyleNext]_vars

-----------------------------------------------------------------------------
(* Properties of the dispatcher and of the table renderer *)

\* the body nodes one renderer invocation appended
Segment(c) == SubSeq(doc, c.from + 1, c.to)

ShapeKeys == <<K_table, K_list, K_image, K_page_break>>
ShapeRenderers == <<"add_table", "add_list", "add_image", "add_page_break">>

\* index in ShapeKeys of the first key the mapping carries, 0 when none
FirstShape(v) ==
    LET present == {n \in 1..Len(ShapeKeys) : Has(v, ShapeKeys[n])} IN
    IF present = {} THEN 0 ELSE CHOOSE n \in present : \A m \in present : n <= m

\* whether a body node is of the kind the renderer emits
NodeOf(renderer, node) ==
    CASE renderer = "add_table" -> node.kind = "table"
      [] renderer = "add_list" ->
            node.kind = "paragraph" /\ node.style \in {"List Bullet", "List Number"}
      [] renderer = "add_image" -> node.kind = "picture"
      [] renderer = "add_page_break" -> node.kind = "page_break"
      [] renderer = "add_section" -> node.kind \in {"heading", "paragraph"}

\* C1: a mapping node selects its renderer by the first shape key present, in
\* the order table, list, image, page_break, whatever the key's value; only
\* that renderer's nodes are appended for it, and process_content invokes
\* exactly one renderer per entry, in entry order.
C1_DispatchByKeyPresence ==
    /\ \A n \in 1..Len(calls) :
          LET c == calls[n] IN
          (c.dispatched /\ IsDict(c.value) /\ FirstShape(c.value) # 0) =>
              /\ c.renderer = ShapeRenderers[FirstShape(c.value)]
              /\ \A m \in 1..Len(Segment(c)) : NodeOf(c.renderer, Segment(c)[m])
              /\ (c.renderer = "add_page_break" => Segment(c) = <<PageBreakNode>>)
              /\ (c.renderer = "add_table" /\ Item(c.value, K_table) = <<>> => Segment(c) = <<>>)
    /\ (last.op = "process_content" /\ IsDict(last.args.content)) =>
          LET items == last.args.content.items IN
          /\ Len(calls) <= Len(items)
          /\ (raised = NoExc => Len(calls) = Len(items))
          /\ \A n \in 1..Len(calls) :
                /\ calls[n].key = items[n][1]
                /\ calls[n].value = items[n][2]
                /\ calls[n].from = (IF n = 1 THEN Len(before.doc) ELSE calls[n - 1].to)
          /\ (calls # <<>> => calls[Len(calls)].to = Len(doc))

\* a node carrying list, image and page_break (false) was rendered as a list
C1_Witness ==
    \E n \in 1..Len(calls) :
        LET c == calls[n] IN
        /\ c.dispatched /\ IsDict(c.value)
        /\ Has(c.value, K_list) /\ Has(c.value, K_image) /\ Has(c.value, K_page_break)
        /\ ~Has(c.value, K_table)
        /\ Item(c.value, K_page_break) = FALSE
        /\ c.renderer = "add_list"
        /\ c.to = c.from + 2

\* C7: a node whose value is no mapping, or a mapping with no shape key, goes
\* to add_section with its key as heading and str(value) as body, level 1 and
\* no style; the heading it emits is the trimmed key at level 1.
C7_PlainNodesToSection ==
    \A n \in 1..Len(calls) :
        LET c == calls[n] IN
        (c.dispatched /\ (IsDict(c.value) => FirstShape(c.value) = 0)) =>
            /\ c.renderer = "add_section"
            /\ c.args.heading = c.key
            /\ c.args.text = PyStr(c.value)
            /\ c.args.level = 1
            /\ c.args.style = StyleNone
            /\ (c.value.type = "str" => c.args.text = c.value.s)
            /\ (c.value.type = "int" /\ c.value.n = 12 => c.args.text = <<"1", "2">>)
            /\ (c.value.type = "NoneType" => c.args.text = <<"N", "o", "n", "e">>)
            /\ (c.value.type = "dict" /\ c.value.items = <<>> => c.args.text = <<"{", "}">>)
            /\ c.to > c.from
            /\ Segment(c)[1].kind = "heading"
            /\ Segment(c)[1].text = Strip(c.key)
            /\ Segment(c)[1].level = 1
            /\ \A m \in 2..Len(Segment(c)) : Segment(c)[m].style \in {"Normal", "List Bullet"}

\* the mapping {"note": "x"} was rendered as a section whose body is its str()
C7_Witness ==
    \E n \in 1..Len(calls) :
        LET c == calls[n] IN
        /\ c.dispatched /\ IsDict(c.value) /\ Has(c.value, T_note) /\ Len(c.value.items) = 1
        /\ c.renderer = "add_section"
        /\ c.to = c.from + 2
        /\ doc[c.to].kind = "paragraph"
        /\ doc[c.to].text = <<"{", "'", "n", "o", "t", "e", "'", ":", " ", "'", "x", "'", "}">>

\* the add_table invocations recorded in calls
TableCalls == {n \in 1..Len(calls) : calls[n].renderer = "add_table"}

\* every row is no longer than row 0
NoRowLonger(table_data) == \A i \in 1..Len(table_data) : Len(table_data[i]) <= Len(table_data[1])

\* the cell of grid t at 0-based row i, column j
GridCell(t, i, j) == t.cells[i * t.cols + j + 1]

\* C8: add_table appends exactly one table node of len(rows) rows and
\* len(rows[0]) columns for non-empty rows, and nothing for empty rows.
C8_TableNodeCount ==
    \A n \in TableCalls :
        LET c == calls[n]
            rows == c.args.data
        IN  IF rows = <<>>
            THEN c.to = c.from /\ c.err = NoExc
            ELSE /\ c.to = c.from + 1
                 /\ doc[c.to].kind = "table"
                 /\ doc[c.to].rows = Len(rows)
                 /\ doc[c.to].cols = Len(rows[1])
                 /\ Len(doc[c.to].cells) = Len(rows) * Len(rows[1])

\* a table whose last row is shorter than row 0 was appended to a body that
\* already held a node
C8_Witness ==
    \E n \in TableCalls :
        LET c == calls[n] IN
        /\ Len(c.args.data) = 2
        /\ Len(c.args.data[1]) = 2 /\ Len(c.args.data[2]) = 1
        /\ c.from > 0
        /\ c.to = c.from + 1
        /\ doc[c.to].kind = "table"

\* C9: with no row longer than row 0 (and a table style the document has)
\* add_table succeeds, cell (i, j) holds rows[i][j] for j < len(rows[i]) and the
\* other cells stay empty.
C9_ShortRowsUnderFill ==
    \A n \in TableCalls :
        LET c == calls[n]
            rows == c.args.data
        IN  (rows # <<>> /\ NoRowLonger(rows) /\ c.args.style \in TableStyles) =>
                /\ c.err = NoExc
                /\ \A i \in 0..(Len(rows) - 1), j \in 0..(Len(rows[1]) - 1) :
                      IF j < Len(rows[i + 1])
                      THEN /\ GridCell(doc[c.to], i, j).text = rows[i + 1][j + 1]
                           /\ GridCell(doc[c.to], i, j).runs = 1
                      ELSE GridCell(doc[c.to], i, j) = EmptyCell

\* a 2-column table with a one-cell second row was rendered
C9_Witness ==
    \E n \in TableCalls :
        LET c == calls[n] IN
        /\ Len(c.args.data) >= 2
        /\ Len(c.args.data[1]) = 2 /\ Len(c.args.data[2]) = 1
        /\ c.err = NoExc
        /\ GridCell(doc[c.to], 1, 0).text = c.args.data[2][1]
        /\ GridCell(doc[c.to], 1, 1) = EmptyCell

\* C10: after add_table(rows, header_rows = h) every filled cell of grid row i
\* is bold at 12pt if and only if i < h.
C10_HeaderRowsBold ==
    \A n \in TableCalls :
        LET c == calls[n]
            rows == c.args.data
            h == c.args.header_rows
        IN  (rows # <<>> /\ c.err = NoExc) =>
                \A i \in 0..(doc[c.to].rows - 1), j \in 0..(doc[c.to].cols - 1) :
                    LET cell == GridCell(doc[c.to], i, j) IN
                    cell.runs > 0 =>
                        /\ cell.bold = (i < h)
                        /\ (cell.size = 12) = (i < h)

-----------------------------------------------------------------------------
(* Properties of create_document_from_json *)

IsBuild == last.op = "create_document_from_json"

\* the last build ended by saving and returning the path
BuildSaved == IsBuild /\ pc = "idle" /\ raised = NoExc /\ returned # <<>>

\* the body nodes appended since the current call started
OwnNodes == SubSeq(doc, Len(before.doc) + 1, Len(doc))

\* C2: the document a call saves holds only the nodes of that call's title,
\* content and watermark, none rendered by an earlier call on the creator.
C2_OwnDocumentPerCall ==
    BuildSaved => files[FileAt(returned)] = OwnNodes

\* the last dispatch ended with a renderer raising
RendererFailed == calls # <<>> /\ calls[Len(calls)].err # NoExc

\* C3: when a renderer raises during a build the error reaches the caller,
\* the build is over without reaching the save step, and the files are those
\* of before the build.
C3_RendererErrorAbortsBuild ==
    (IsBuild /\ RendererFailed) =>
        /\ pc = "idle"
        /\ raised = calls[Len(calls)].err
        /\ returned = <<>>
        /\ files = before.files

\* add_image failed on a missing file after an earlier entry was rendered,
\* in a build that followed one that had saved a document
C3_Witness ==
    /\ IsBuild /\ Len(calls) = 2
    /\ calls[1].err = NoExc /\ calls[1].to > calls[1].from
    /\ calls[2].renderer = "add_image" /\ calls[2].err = "FileNotFoundError"
    /\ raised = "FileNotFoundError"
    /\ Exists(before.files, JoinPath(output_dir, F_out))
    /\ files = before.files

RequiredKeys == {K_title, K_file_name, K_content}

\* the last call loaded JSON data lacking a required field
LoadedWithoutField ==
    /\ IsBuild
    /\ last.input.kind = "ok"
    /\ \E k \in RequiredKeys : ~Has(last.input.data, k)

\* C4: with title, file_name or content absent the call raises before any
\* rendering: the body is as it was before the call and no file is written.
C4_MissingFieldAbortsBeforeRendering ==
    LoadedWithoutField =>
        /\ pc = "idle"
        /\ raised = "ValueError"
        /\ returned = <<>>
        /\ doc = before.doc
        /\ files = before.files

\* file_name was absent in a call made on a creator whose body held nodes
C4_Witness ==
    /\ LoadedWithoutField
    /\ ~Has(last.input.data, K_file_name)
    /\ raised = "ValueError"
    /\ doc # <<>>
    /\ doc = before.doc

\* positions of the hidden watermark paragraphs of a body
HiddenParagraphs(d) == {n \in 1..Len(d) : d[n].kind = "paragraph" /\ d[n].style = "Hidden"}

\* C5: at the save the document holds no hidden paragraph when the watermark
\* text is empty or None, and exactly one, as its last node, otherwise.
C5_OneWatermarkAtSave ==
    pc = "save" =>
        IF Truthy(watermark_text)
        THEN HiddenParagraphs(doc) = {Len(doc)}
        ELSE HiddenParagraphs(doc) = {}

\* the nodes process_content emits for one section group
Emits(section) == process_content(<<>>, section).doc

\* the nodes of the first n section groups of a content tree, in tree order
RECURSIVE ContentNodes(_, _)
ContentNodes(sections, n) ==
    IF n = 0 THEN <<>>
    ELSE ContentNodes(sections, n - 1)
         \o Emits(IF IsList(sections) THEN sections.l[n] ELSE sections)

\* section groups dispatched so far in the build in progress
Dispatched ==
    LET sections == Item(data, K_content) IN
    IF pc = "content" THEN section_idx - 1
    ELSE IF IsList(sections) THEN Len(sections.l) ELSE 1

\* C6: a build emits the title heading first, then the nodes of the content
\* entries in tree order, then the watermark, and saves only after that; the
\* content {"Intro": "Hello"} gives heading "Intro" then one paragraph "Hello".
C6_EmissionOrder ==
    /\ pc \in {"content", "watermark", "save"} =>
          LET sections == Item(data, K_content)
              mark == IF pc = "save" /\ Truthy(watermark_text) THEN 1 ELSE 0
              content == SubSeq(OwnNodes, 2, Len(OwnNodes) - mark)
          IN  /\ files = before.files
              /\ OwnNodes[1].kind = "heading"
              /\ OwnNodes[1].level = 0
              /\ OwnNodes[1].text = Item(data, K_title)
              /\ content = ContentNodes(sections, Dispatched)
              /\ (mark = 1 =>
                    /\ OwnNodes[Len(OwnNodes)].style = "Hidden"
                    /\ OwnNodes[Len(OwnNodes)].text = watermark_text.s)
              /\ (sections = C_Intro /\ pc # "content" =>
                    /\ Len(content) = 2
                    /\ content[1].kind = "heading" /\ content[1].text = T_Intro
                    /\ content[1].level = 1
                    /\ content[2].kind = "paragraph" /\ content[2].text = T_Hello)
    /\ BuildSaved => files[FileAt(returned)] = doc

\* a list of two section groups and the watermark were emitted, save is next
C6_Witness ==
    /\ pc = "save"
    /\ Truthy(watermark_text)
    /\ Item(data, K_content) = PyList(<<C_Intro, C_Table>>)
    /\ Len(OwnNodes) = 5
    /\ OwnNodes[4].kind = "table"

-----------------------------------------------------------------------------
(* Properties of the list renderer *)

\* the add_list invocations recorded in calls
ListCalls == {n \in 1..Len(calls) : calls[n].renderer = "add_list"}

\* C11: add_list appends exactly len(items) paragraphs, in input order with
\* duplicates kept, each holding its item's text, in the bullet style exactly
\* when list_type is "bullet" and in the numbered style otherwise.
C11_OneParagraphPerItem ==
    \A n \in ListCalls :
        LET c == calls[n]
            items == c.args.items
        IN  /\ c.err = NoExc
            /\ c.to = c.from + Len(items)
            /\ SubSeq(doc, 1, c.from) = SubSeq(before.doc, 1, c.from)
            /\ \A m \in 1..Len(items) :
                  /\ doc[c.from + m].kind = "paragraph"
                  /\ doc[c.from + m].text = items[m]
                  /\ (c.args.list_type = "bullet" => doc[c.from + m].style = "List Bullet")
                  /\ (c.args.list_type # "bullet" => doc[c.from + m].style = "List Number")

\* a list holding the same item twice was rendered with a list_type that is
\* neither "bullet" nor "numbered"
C11_Witness ==
    \E n \in ListCalls :
        LET c == calls[n] IN
        /\ c.args.items = <<T_x, T_x>>
        /\ c.args.list_type = "roman"
        /\ c.to = c.from + 2
        /\ doc[c.to].style = "List Number"
        /\ doc[c.to].text = T_x

\* C12: every paragraph of one add_list call has the left indent 36 * (level + 1)
\* points, and the indent of the next level is strictly larger.
C12_IndentGrowsWithLevel ==
    \A n \in ListCalls :
        LET c == calls[n]
            level == c.args.level
        IN  /\ \A m \in (c.from + 1)..c.to : doc[m].left_indent = 36 * (level + 1)
            /\ \A m \in (c.from + 1)..c.to : ListIndent(level + 1) > doc[m].left_indent
            /\ ListIndent(level + 1) > ListIndent(level)
            /\ ListIndent(level + 1) - ListIndent(level) = 36

\* two numbered items were rendered at a level above 0
C12_Witness ==
    \E n \in ListCalls :
        LET c == calls[n] IN
        /\ c.args.level > 0
        /\ c.args.list_type = "numbered"
        /\ c.to = c.from + 2
        /\ doc[c.from + 1].left_indent = doc[c.to].left_indent
        /\ doc[c.to].left_indent > 36

-----------------------------------------------------------------------------
(* Properties of the section renderer *)

\* the last public call was add_section, made directly
IsSectionCall == last.op = "add_section"

\* the blank-line-delimited units of a body, trimmed, the empty ones dropped
BodyUnits(text) ==
    LET units == Split(Strip(text), BlankLine)
        trimmed == [n \in 1..Len(units) |-> Strip(units[n])]
    IN  SelectSeq(trimmed, LAMBDA u : u # <<>>)

\* the lines of a unit that are not blank
NonBlankLines(unit) == SelectSeq(Split(unit, Newline), LAMBDA l : Strip(l) # <<>>)

\* a line with its leading bullet markers and whitespace removed
LeadingStripped(line) == Strip(LStripChars(line, {"-", "*"} \cup Whitespace))

\* what the units of a body are to be rendered as: one list item per non-blank
\* line of a list unit, one paragraph per other unit
RECURSIVE ExpectedBody(_)
ExpectedBody(units) ==
    IF units = <<>> THEN <<>>
    ELSE LET u == Head(units)
             lines == NonBlankLines(u)
         IN  (IF IsListUnit(u)
              THEN [n \in 1..Len(lines) |-> [list |-> TRUE, text |-> LeadingStripped(lines[n])]]
              ELSE <<[list |-> FALSE, text |-> u]>>)
             \o ExpectedBody(Tail(units))

\* the nodes add_section appended after its heading
BodyNodes == SubSeq(OwnNodes, 2, Len(OwnNodes))

\* C13: every body unit that starts with "- " or "* " is rendered as list
\* items only: one bullet paragraph at level 0 per non-blank line, holding the
\* line without its leading markers and whitespace, and never as a literal
\* paragraph.
C13_ListUnitsAsItems ==
    (IsSectionCall /\ raised = NoExc) =>
        LET expected == ExpectedBody(BodyUnits(last.args.text)) IN
        /\ Len(BodyNodes) = Len(expected)
        /\ \A n \in 1..Len(expected) :
              IF expected[n].list
              THEN /\ BodyNodes[n].style = "List Bullet"
                   /\ BodyNodes[n].left_indent = 36
                   /\ BodyNodes[n].text = expected[n].text
              ELSE BodyNodes[n].style # "List Bullet"

\* C14: add_section emits one heading node holding the trimmed heading, then
\* one paragraph per non-empty body unit that is no list unit, in order; a
\* body of blank lines or whitespace gives the heading alone, without error.
C14_HeadingThenParagraphs ==
    (IsSectionCall /\ last.args.style \in ParagraphStyles \cup {StyleNone}) =>
        LET expected == ExpectedBody(BodyUnits(last.args.text)) IN
        /\ raised = NoExc
        /\ OwnNodes # <<>>
        /\ OwnNodes[1].kind = "heading"
        /\ OwnNodes[1].text = Strip(last.args.heading)
        /\ \A n \in 1..Len(BodyNodes) : BodyNodes[n].kind = "paragraph"
        /\ SelectSeq(BodyNodes, LAMBDA b : b.style # "List Bullet")
             = [n \in 1..Len(SelectSeq(expected, LAMBDA e : ~e.list)) |->
                    IF last.args.style = StyleNone
                    THEN BodyParagraph(SelectSeq(expected, LAMBDA e : ~e.list)[n].text)
                    ELSE [BodyParagraph(SelectSeq(expected, LAMBDA e : ~e.list)[n].text)
                             EXCEPT !.style = last.args.style]]
        /\ (BodyUnits(last.args.text) = <<>> => Len(OwnNodes) = 1)

-----------------------------------------------------------------------------
(* Properties of the markup builders *)

IsHyperlinkCall == last.op = "add_hyperlink"
IsBorderCall == last.op = "set_cell_border"

\* position of a step in a sequence of steps, 0 when absent
Position(steps, step) ==
    IF \E n \in 1..Len(steps) : steps[n] = step
    THEN CHOOSE n \in 1..Len(steps) : steps[n] = step /\ \A m \in 1..(n - 1) : steps[m] # step
    ELSE 0

\* the values of the attribute of the given name in an element and its descendants
RECURSIVE AttrValues(_, _)
RECURSIVE AttrValuesOfAll(_, _)
AttrValues(el, name) ==
    SelectSeq([n \in 1..Len(el.attrs) |-> el.attrs[n]], LAMBDA a : a[1] = name)
    \o AttrValuesOfAll(el.children, name)
AttrValuesOfAll(els, name) ==
    IF els = <<>> THEN <<>> ELSE AttrValues(Head(els), name) \o AttrValuesOfAll(Tail(els), name)

\* the external hyperlink relationships registered for a URL
HyperlinkRels(rs, url) ==
    {n \in 1..Len(rs) : rs[n].external /\ rs[n].reltype = RT_HYPERLINK /\ rs[n].target = url}

\* C15: add_hyperlink registers the external relationship before it builds the
\* hyperlink element, and the fragment holds exactly one r:id reference, whose
\* value is the id that registration returned for the URL.
C15_OneRelationshipReference ==
    IsHyperlinkCall =>
        LET refs == AttrValues(last.info.hyperlink, qn(A_rid))
            registered == HyperlinkRels(rels, last.args.url)
        IN  /\ Position(last.info.steps, "relate_to") = 1
            /\ Position(last.info.steps, "relate_to")
                 < Position(last.info.steps, "OxmlElement(w:hyperlink)")
            /\ Len(refs) = 1
            /\ refs[1][2] = last.info.r_id
            /\ Cardinality(registered) = 1
            /\ \A n \in registered : rels[n].rId = last.info.r_id
            /\ \A n \in 1..Len(last.rels) : rels[n] = last.rels[n]

\* a second hyperlink to a URL already registered reused its relationship id
C15_Witness ==
    /\ IsHyperlinkCall
    /\ HyperlinkRels(last.rels, last.args.url) # {}
    /\ rels = last.rels
    /\ Len(rels) = Len(TemplateRels) + 1
    /\ last.info.r_id = "rId3"
    /\ AttrValues(last.info.hyperlink, qn(A_rid)) = <<<<qn(A_rid), "rId3">>>>

\* C16: after add_hyperlink the hyperlink element, holding one run that wraps
\* the display text, is a direct child of the paragraph element, not nested
\* inside another run.
C16_HyperlinkChildOfParagraph ==
    IsHyperlinkCall =>
        /\ Len(tree.p) = Len(last.tree.p) + 1
        /\ SubSeq(tree.p, 1, Len(last.tree.p)) = last.tree.p
        /\ tree.p[Len(tree.p)].tag = "w:hyperlink"
        /\ Len(tree.p[Len(tree.p)].children) = 1
        /\ tree.p[Len(tree.p)].children[1].tag = "w:r"
        /\ tree.p[Len(tree.p)].children[1].text = last.args.text

\* the border containers among the children of the cell properties
Containers(tcPr) == SelectSeq(tcPr, LAMBDA e : e.tag = "w:tcBorders")

\* the requested sides of the keyword arguments, in the order given
RequestedSides(kwargs) == SelectSeq(kwargs, LAMBDA kv : kv[1] \in BorderSides)

\* C17: one set_cell_border call appends exactly one border container holding
\* one child per requested side among top, left, bottom, right, each with the
\* given style, weight 4, spacing 0 and color auto; earlier containers stay.
C17_OneContainerPerCall ==
    IsBorderCall =>
        LET sides == RequestedSides(last.args.kwargs)
            container == tree.tcPr[Len(tree.tcPr)]
        IN  /\ raised = NoExc
            /\ Len(tree.tcPr) = Len(last.tree.tcPr) + 1
            /\ SubSeq(tree.tcPr, 1, Len(last.tree.tcPr)) = last.tree.tcPr
            /\ Len(Containers(tree.tcPr)) = Len(Containers(last.tree.tcPr)) + 1
            /\ container.tag = "w:tcBorders"
            /\ Len(container.children) = Len(sides)
            /\ \A n \in 1..Len(sides) :
                  /\ container.children[n].tag = "w:" \o sides[n][1]
                  /\ container.children[n].attrs =
                        <<<<A_val, sides[n][2]>>, <<A_sz, "4">>, <<A_space, "0">>,
                          <<A_color, "auto">>>>

-----------------------------------------------------------------------------
(* Properties of the error handling *)

\* the last build ended with the save step failing
SaveFailed == IsBuild /\ pc = "idle" /\ raised = "OSError"

\* C18: when writing the output file fails in the save step the build aborts
\* after full rendering and no partial file is left: the files are those of
\* before the build.
C18_SaveAllOrNothing ==
    SaveFailed =>
        /\ returned = <<>>
        /\ \A path \in DOMAIN files : files[path] # PartialFile
        /\ files = before.files

\* the last build ended with an exception leaving create_document_from_json
BuildFailed == IsBuild /\ pc = "idle" /\ raised # NoExc

\* the current call logged exception e at error level from function fn
LoggedError(fn, e) ==
    \E n \in 1..Len(log) : log[n].fn = fn /\ log[n].level = "error" /\ log[n].exc = e

\* every handler of the library that caught the exception of the failed build
\* logged it at error level, and the exception that left the build is the
\* one that was raised first
LibraryHandlersReraise ==
    /\ LoggedError("create_document_from_json", raised)
    /\ \A n \in 1..Len(log) : log[n].exc # NoExc => log[n].level = "error" /\ log[n].exc = raised
    /\ RendererFailed =>
          LET c == calls[Len(calls)] IN
          /\ raised = c.err
          /\ LoggedError("process_content", c.err)
          /\ (c.renderer \in {"add_image", "add_section"} => LoggedError(c.renderer, c.err))

\* C19 (as stated): every exception caught anywhere, the compat and CLI main
\* functions included, is logged at error level and re-raised to the caller.
C19_EveryHandlerReraises ==
    BuildFailed =>
        /\ LibraryHandlersReraise
        /\ main_exit.raised = raised

\* C19 (amended): the handlers of add_image, add_section, process_content and
\* create_document_from_json log at error level and re-raise the exception
\* unchanged, and compat.main re-raises it; the command line's main logs it at
\* error level and returns the exit code 1 instead of re-raising.
C19_LibraryReraisesMainExits ==
    /\ BuildFailed =>
          /\ LibraryHandlersReraise
          /\ (main_exit.entry # "__main__.main" =>
                main_exit.raised = raised /\ main_exit.code = "none")
          /\ (main_exit.entry = "__main__.main" =>
                /\ main_exit.raised = NoExc
                /\ main_exit.code = "1"
                /\ log[Len(log)].fn = "main"
                /\ log[Len(log)].level = "error"
                /\ log[Len(log)].exc = raised)
    /\ (BuildSaved /\ main_exit.entry = "__main__.main") =>
          main_exit.code = "0" /\ main_exit.raised = NoExc

\* a build started by the command line's main ended with add_image failing
C19_Witness ==
    /\ BuildFailed
    /\ main_exit.entry = "__main__.main"
    /\ main_exit.code = "1"
    /\ RendererFailed
    /\ calls[Len(calls)].renderer = "add_image"
    /\ raised = "FileNotFoundError"
    /\ Len(log) = 4

\* the dispatches of process_content that ended with the renderer raising
FailedDispatches == {n \in 1..Len(calls) : calls[n].dispatched /\ calls[n].err # NoExc}

\* C20: when a renderer fails while process_content dispatches a node, the
\* error that propagates is the renderer's own, and an error record of the
\* log names the heading/key of the node, whatever the node's shape.
C20_FailureLogNamesKey ==
    \A n \in FailedDispatches :
        LET c == calls[n] IN
        /\ raised = c.err
        /\ LoggedError("process_content", c.err)
        /\ \E m \in 1..Len(log) :
              log[m].level = "error" /\ log[m].exc = c.err /\ log[m].arg = c.key

-----------------------------------------------------------------------------
(* Properties of the output file and of the command line *)

\* the file lies inside the directory
Inside(dir, file) == Len(file) > Len(dir) /\ SubSeq(file, 1, Len(dir)) = dir

\* C21: on success create_document_from_json writes exactly one file, at the
\* output directory joined with file_name, returns that path, and the written
\* file lies inside the output directory for every file_name.
C21_OneFileInsideOutputDir ==
    BuildSaved =>
        /\ returned = JoinPath(output_dir, Item(last.input.data, K_file_name))
        /\ FileAt(returned) \in DOMAIN files
        /\ \A path \in DOMAIN files \ {FileAt(returned)} :
              path \in DOMAIN before.files /\ files[path] = before.files[path]
        /\ Inside(output_dir, FileAt(returned))

\* a run of the command line has ended
MainEnded == main_exit.entry = "__main__.main" /\ main_exit.code # "running"

\* C22: the CLI main returns exit code 0 exactly when the document was built
\* and saved, and returns 1 when any error occurs anywhere in the run
\* (constructing the DocumentCreator, loading, rendering or saving); it never
\* returns 0 without a saved document.
C22_MainReturnsExitCode ==
    MainEnded =>
        /\ main_exit.raised = NoExc
        /\ main_exit.code \in {"0", "1"}
        /\ main_exit.code = "0" <=> BuildSaved

-----------------------------------------------------------------------------
(* Properties of the style helpers *)

StyleAttrs == ParagraphFormatAttrs \cup FontAttrs \cup {"color"}

\* the attribute values a caller reads from a style
ReadStyle(style) ==
    [k \in StyleAttrs |->
        IF k \in ParagraphFormatAttrs THEN GetParagraphAttr(style.pPr, k)
        ELSE IF k = "color" THEN style.color.rgb
        ELSE style.font[k]]

KwargsKeys(kwargs) == {kwargs[n][1] : n \in 1..Len(kwargs)}
KwargsValue(kwargs, k) == kwargs[CHOOSE n \in 1..Len(kwargs) : kwargs[n][1] = k][2]

\* the style the caller holds reads as before the call, but for the keys passed
SetExactly(kwargs) ==
    LET n == StyleAt(styles.tab, styles.style) IN
    /\ raised = NoExc
    /\ \A k \in StyleAttrs :
          ReadStyle(styles.tab[n])[k] =
              IF k \in KwargsKeys(kwargs) THEN KwargsValue(kwargs, k)
              ELSE ReadStyle(last.styles.tab[n])[k]
    /\ \A m \in 1..Len(styles.tab) : m # n => styles.tab[m] = last.styles.tab[m]

\* C23: create_style(doc, name) returns a usable style when the name is new
\* (the style is added) and when it exists (the existing one is returned, no
\* duplicate, no error); apply_paragraph_format and apply_font_format then set
\* on that style exactly the attributes passed, the key color going to the
\* font's color value, and leave the other attributes unchanged.
C23_CreateThenApply ==
    /\ (last.op = "create_style" /\ last.args.base_style = "Normal") =>
          /\ raised = NoExc
          /\ styles.style = last.args.name
          /\ Cardinality({n \in 1..Len(styles.tab) : styles.tab[n].name = last.args.name}) = 1
          /\ IF HasStyle(last.styles.tab, last.args.name)
             THEN styles.tab = last.styles.tab
             ELSE /\ Len(styles.tab) = Len(last.styles.tab) + 1
                  /\ SubSeq(styles.tab, 1, Len(last.styles.tab)) = last.styles.tab
    /\ (last.op = "apply_paragraph_format"
          /\ KwargsKeys(last.args.kwargs) \subseteq ParagraphFormatAttrs) =>
          SetExactly(last.args.kwargs)
    /\ (last.op = "apply_font_format"
          /\ KwargsKeys(last.args.kwargs) \subseteq FontAttrs \cup {"color"}) =>
          SetExactly(last.args.kwargs)

-----------------------------------------------------------------------------
(* Further properties of the renderers *)

\* C24: add_table never exceeds the column bounds of the grid it created: for
\* any rows, a row longer than row 0 included, no out-of-range cell access
\* occurs and the text of row i is never written into a cell of another row.
C24_WithinColumnBounds ==
    \A n \in TableCalls :
        LET c == calls[n]
            rows == c.args.data
        IN  rows # <<>> =>
                /\ c.err # "IndexError"
                /\ \A i \in 0..(doc[c.to].rows - 1), j \in 0..(doc[c.to].cols - 1) :
                      LET cell == GridCell(doc[c.to], i, j) IN
                      cell.runs > 0 =>
                          /\ j < Len(rows[i + 1])
                          /\ cell.text = rows[i + 1][j + 1]

\* C25: for a content node dispatched to the table, list, image or page_break
\* renderer the key is not rendered: no heading node is emitted for it, and
\* the entry adds the nodes of its shape renderer only (none for an empty
\* table).
C25_ShapeKeyNotRendered ==
    (last.op = "process_content" /\ IsDict(last.args.content)) =>
        /\ SubSeq(doc, 1, Len(before.doc)) = before.doc
        /\ (calls # <<>> => calls[Len(calls)].to = Len(doc))
        /\ \A n \in 1..Len(calls) :
              LET c == calls[n] IN
              c.renderer # "add_section" =>
                  /\ c.from = (IF n = 1 THEN Len(before.doc) ELSE calls[n - 1].to)
                  /\ \A m \in 1..Len(Segment(c)) : Segment(c)[m].kind # "heading"
                  /\ Segment(c) = Render(<<>>, c.renderer, c.args).doc
                  /\ (c.renderer = "add_table" /\ c.args.data = <<>> => Segment(c) = <<>>)

\* process_content dispatched a table node with a non-empty key on a body that
\* held a node, and the table is all the entry added
C25_Witness ==
    /\ last.op = "process_content"
    /\ \E n \in 1..Len(calls) :
          LET c == calls[n] IN
          /\ c.renderer = "add_table"
          /\ c.key # <<>>
          /\ c.err = NoExc
          /\ c.from > 0
          /\ Len(Segment(c)) = 1
          /\ Segment(c)[1].kind = "table"

====
